---- MODULE Spec2Model ----
(***************************************************************************)
(* Model of the multi-pass extraction engine of dsp_systems_modelling:     *)
(* the enumerated-answer parsers and field extractors of ai_utils.py and   *)
(* the batch driver run_three_pass_extraction of extract_data.py.          *)
(*                                                                         *)
(* Texts are sequences of one-character strings.  The regular expressions  *)
(* of the parsers are modelled position by position: an offset o in        *)
(* 0..Len(s) is the place between character o and character o+1.          *)
(***************************************************************************)
EXTENDS Integers, Sequences, FiniteSets, TLC

VARIABLES
    content,        \* the model answer handed to a parser
    parser,         \* which parser ran: "none", "meta", "detail", "user"
    num_items,      \* the expected item count N of that run
    data,           \* the parser's list of values (data / results), 1-based
    out,            \* the record the parser returned
    pc,             \* where run_three_pass_extraction stands
    pdf_folder,     \* the input folder: whether it exists, the text of each PDF
    user_items,     \* the number of labels the user supplied
    doc,            \* the position of pdf_file in the folder's listing
    meta_data,      \* the record of the meta pass of the current document
    user_data,      \* the record of the user-items pass of the current document
    num_results,    \* the result count of the current document
    main_results_list,  \* the result texts of the current document
    result_index,   \* the index i of the result the detail pass is at
    results_rows,   \* the rows built so far
    calls,          \* history: the text-generation calls issued so far, in order
    reconciled,     \* history: the reconciled count of each study processed
    persisted,      \* what the run wrote to output_csv
    map_pc,         \* where map_interventions_and_outcomes stands
    extracted_csv,  \* the table at extracted_csv_path: header and rows of cells
    intervention_ontology_path,     \* the file with the intervention terms
    outcome_ontology_path,          \* the file with the outcome terms
    df_extracted,   \* the rows read from the table, then with the mapped columns
    intervention_terms,     \* what load_ontology returned for the interventions
    outcome_terms,          \* what load_ontology returned for the outcomes
    intervention_onto_df,   \* the embedded intervention terms
    outcome_onto_df,        \* the embedded outcome terms
    row_index,      \* the number of rows the mapping loop has handled
    mapped_interventions,   \* the list of the same name
    mapped_outcomes,        \* the list of the same name
    embed_calls,    \* history: the embedding calls issued so far, in order
    lookups,        \* history: the calls of find_best_match_in_ontology
    mapped_written, \* the mapped table was written to output_csv_path
    filter_pc,      \* where filter_references_with_gpt stands
    references,     \* the references handed to the filter
    ref_index,      \* the number of references the filter loop has handled
    filtered,       \* the list of the same name
    filter_calls    \* history: the classification calls issued so far

parseVars == <<content, parser, num_items, data, out>>

runVars == <<pc, pdf_folder, user_items, doc, meta_data, user_data,
             num_results, main_results_list, result_index, results_rows,
             calls, reconciled, persisted>>

mapVars == <<map_pc, extracted_csv, intervention_ontology_path,
             outcome_ontology_path, df_extracted, intervention_terms,
             outcome_terms, intervention_onto_df, outcome_onto_df, row_index,
             mapped_interventions, mapped_outcomes, embed_calls, lookups,
             mapped_written>>

filterVars == <<filter_pc, references, ref_index, filtered, filter_calls>>

vars == <<content, parser, num_items, data, out, pc, pdf_folder, user_items,
          doc, meta_data, user_data, num_results, main_results_list,
          result_index, results_rows, calls, reconciled, persisted,
          map_pc, extracted_csv, intervention_ontology_path,
          outcome_ontology_path, df_extracted, intervention_terms,
          outcome_terms, intervention_onto_df, outcome_onto_df, row_index,
          mapped_interventions, mapped_outcomes, embed_calls, lookups,
          mapped_written, filter_pc, references, ref_index, filtered,
          filter_calls>>

----------------------------------------------------------------------------
(* Bounds of the model *)

MaxTokens == 4      \* tokens in an enumerated model answer
MaxItems == 3       \* user-supplied labels handed to parse_user_items_response
MaxDocs == 2        \* PDF files in the input folder
MaxLabels == 2      \* user-supplied labels of a run
MaxRows == 1        \* rows of the table that is mapped
MaxRefs == 3        \* references handed to the relevance filter

(* Program constants *)

MetaCount == 8
DetailCount == 7

----------------------------------------------------------------------------
(* Characters and strings *)

DigitChars == <<"0", "1", "2", "3", "4", "5", "6", "7", "8", "9">>

Letters == {"a", "b", "c", "x", "N", "A"}

IsDigit(c) == \E d \in 1..10 : DigitChars[d] = c

\* \w of the re module: letters, digits and the underscore
IsWord(c) == IsDigit(c) \/ c \in Letters \/ c = "_"

\* the characters str.strip() removes
IsSpace(c) == c \in {" ", "\n"}

NA == <<"N", "A">>

Min(S) == CHOOSE x \in S : \A y \in S : x <= y

Max(S) == CHOOSE x \in S : \A y \in S : x >= y

\* f"{i}" for a non-negative integer
RECURSIVE Str(_)
Str(i) == IF i < 10 THEN <<DigitChars[i + 1]>>
          ELSE Str(i \div 10) \o <<DigitChars[(i % 10) + 1]>>

\* the literal rf"{i}:" of a pattern
Label(i) == Str(i) \o <<":">>

\* str.strip()
Strip(s) ==
    LET keep == {j \in 1..Len(s) : ~IsSpace(s[j])}
    IN  IF keep = {} THEN <<>> ELSE SubSeq(s, Min(keep), Max(keep))

----------------------------------------------------------------------------
(* The two patterns of the parsers: a lookbehind for the label of item i,  *)
(* a group (lazy for i < n, greedy for the last item) and, for i < n, a    *)
(* lookahead for the label of item i+1 or the end of the text.             *)

\* the literal lit starts right after offset o
StartsAt(s, o, lit) ==
    /\ o + Len(lit) <= Len(s)
    /\ SubSeq(s, o + 1, o + Len(lit)) = lit

\* \b at offset o: exactly one of the two neighbours is a word character
WordBoundary(s, o) ==
    LET before == o >= 1 /\ IsWord(s[o])
        after  == o < Len(s) /\ IsWord(s[o + 1])
    IN  before # after

\* a faulty variant of LabelBehind: the label is matched without the \b
LabelBehindNoBoundary(s, o, i) ==
    LET lab == Label(i)
    IN  /\ o >= Len(lab)
        /\ StartsAt(s, o - Len(lab), lab)

\* the lookbehind for "\b{i}:" at offset o
LabelBehind(s, o, i) ==
    LET lab == Label(i)
    IN  /\ o >= Len(lab)
        /\ StartsAt(s, o - Len(lab), lab)
        /\ WordBoundary(s, o - Len(lab))

\* a faulty variant of LabelAhead: the label of any item ends the span
LabelAheadAnyItem(s, o, i) ==
    WordBoundary(s, o) /\ \E j \in 1..MetaCount : StartsAt(s, o, Label(j))

\* \b{i}: at offset o, inside the lookahead
LabelAhead(s, o, i) == WordBoundary(s, o) /\ StartsAt(s, o, Label(i))

\* $ without re.MULTILINE: the end, or just before a final newline
AtEnd(s, o) == o = Len(s) \/ (o = Len(s) - 1 /\ s[Len(s)] = "\n")

\* the offsets at which pattern.search can start a match for item i
MatchStarts(s, i) == {o \in 0..Len(s) : LabelBehind(s, o, i)}

\* a faulty variant of GroupEnd: the group of an item i < n is greedy
GroupEndGreedy(s, o, i, n) == Len(s)

\* where group(1) ends for a match starting at o: the lazy group stops at the
\* first offset the lookahead accepts, the group of the last item runs to the end
GroupEnd(s, o, i, n) ==
    IF i < n
    THEN Min({q \in o..Len(s) : LabelAhead(s, q, i + 1) \/ AtEnd(s, q)})
    ELSE Len(s)

\* match.group(1) of the match that starts at offset o
Group(s, o, i, n) == SubSeq(s, o + 1, GroupEnd(s, o, i, n))

\* a faulty variant of ValueOf: an empty value is kept instead of becoming "NA"
ValueOfKeepEmpty(s, i, n) ==
    LET starts == MatchStarts(s, i)
    IN  IF starts # {} THEN Strip(Group(s, Min(starts), i, n)) ELSE NA

\* a faulty variant of ValueOf: a missing label leaves an empty value
ValueOfMissEmpty(s, i, n) ==
    LET starts == MatchStarts(s, i)
    IN  IF starts # {}
        THEN LET val == Strip(Group(s, Min(starts), i, n))
             IN  IF val # <<>> THEN val ELSE NA
        ELSE <<>>

\* one turn of the loop: pattern.search takes the leftmost match, and the
\* value stored in data[i - 1] is its stripped group, or "NA"
ValueOf(s, i, n) ==
    LET starts == MatchStarts(s, i)
    IN  IF starts # {}
        THEN LET val == Strip(Group(s, Min(starts), i, n))
             IN  IF val # <<>> THEN val ELSE NA
        ELSE NA

\* the loop "for i in range(1, n + 1)" shared by the three parsers
ParseLoop(s, n) == [i \in 1..n |-> ValueOf(s, i, n)]

\* meta_dict built from data
MetaDict(d) ==
    [study_title |-> d[1],
     population_outcome_measured_in |-> d[2],
     population_intervention_affected_or_predictor |-> d[3],
     secondary_characteristics |-> d[4],
     country |-> d[5],
     study_type_letter |-> d[6],
     num_main_results |-> d[7],
     main_results_list |-> d[8]]

parse_meta_extraction(s) == MetaDict(ParseLoop(s, MetaCount))

\* out built from data
DetailDict(d) ==
    [effect_size_type |-> d[1],
     effect_size |-> d[2],
     effect_size_uncertainty |-> d[3],
     p_value |-> d[4],
     total_sample_size |-> d[5],
     intervention_or_predictor_variable |-> d[6],
     outcome_variable |-> d[7]]

parse_detail_extraction(s) == DetailDict(ParseLoop(s, DetailCount))

\* results[j] of a Python list of length n, for j in -n..n-1, as a 1-based index
PyIndex(j, n) == IF j < 0 THEN j + n + 1 ELSE j + 1

\* f"extra_{i}"
ExtraKey(i) == "extra_" \o ToString(i)

\* {f"extra_{i}": results[i - 1] for i in range(num_items)}
UserDict(results, n) ==
    [key \in {ExtraKey(i) : i \in 0..(n - 1)} |->
        LET i == CHOOSE j \in 0..(n - 1) : ExtraKey(j) = key
        IN  results[PyIndex(i - 1, n)]]

parse_user_items_response(s, n) == UserDict(ParseLoop(s, n), n)

----------------------------------------------------------------------------
(* Model answers the parsers are run on *)

Tokens == {Label(i) : i \in 1..MaxItems} \cup {<<"a">>, <<"\n">>, <<"1">>}

RECURSIVE TokenTexts(_)
TokenTexts(k) ==
    IF k = 0 THEN {<<>>}
    ELSE LET shorter == TokenTexts(k - 1)
         IN  shorter \cup {t \o tok : t \in shorter, tok \in Tokens}

\* an answer that carries every label 1..n in order, each followed by a filler
Fillers == {<<"\n">>, <<" ", "a", "\n">>}

RECURSIVE Numbered(_, _)
Numbered(n, fill) ==
    IF n = 0 THEN <<>> ELSE Numbered(n - 1, fill) \o Label(n) \o fill[n]

NumberedTexts(n) == {Numbered(n, fill) : fill \in [1..n -> Fillers]}

Contents == TokenTexts(MaxTokens) \cup UNION {NumberedTexts(n) : n \in 1..MetaCount}

----------------------------------------------------------------------------
(* The parsers as operations on a model answer *)

\* the ontology mapping has not started
MapIdle ==
    /\ map_pc = "idle"
    /\ extracted_csv = [header |-> <<>>, rows |-> <<>>]
    /\ intervention_ontology_path = [ext |-> "", is_list |-> FALSE, items |-> <<>>]
    /\ outcome_ontology_path = [ext |-> "", is_list |-> FALSE, items |-> <<>>]
    /\ df_extracted = <<>>
    /\ intervention_terms = <<>>
    /\ outcome_terms = <<>>
    /\ intervention_onto_df = <<>>
    /\ outcome_onto_df = <<>>
    /\ row_index = 0
    /\ mapped_interventions = <<>>
    /\ mapped_outcomes = <<>>
    /\ embed_calls = <<>>
    /\ lookups = <<>>
    /\ mapped_written = FALSE

\* the relevance filter has not started
FilterIdle ==
    /\ filter_pc = "idle"
    /\ references = <<>>
    /\ ref_index = 0
    /\ filtered = <<>>
    /\ filter_calls = <<>>

\* the run of the batch driver has not started
RunIdle ==
    /\ pc = "idle"
    /\ pdf_folder = [exists |-> FALSE, files |-> <<>>]
    /\ user_items = 0
    /\ doc = 0
    /\ meta_data = <<>>
    /\ user_data = <<>>
    /\ num_results = 0
    /\ main_results_list = <<>>
    /\ result_index = 0
    /\ results_rows = <<>>
    /\ calls = <<>>
    /\ reconciled = <<>>
    /\ persisted = [written |-> FALSE, header |-> <<>>, rows |-> <<>>]

InitParse ==
    /\ content \in Contents
    /\ parser = "none"
    /\ num_items = 0
    /\ data = <<>>
    /\ out = <<>>
    /\ RunIdle
    /\ MapIdle
    /\ FilterIdle

ParseMeta ==
    /\ parser = "none"
    /\ parser' = "meta"
    /\ num_items' = MetaCount
    /\ data' = ParseLoop(content, MetaCount)
    /\ out' = MetaDict(data')
    /\ UNCHANGED <<content, runVars, mapVars, filterVars>>

ParseDetail ==
    /\ parser = "none"
    /\ parser' = "detail"
    /\ num_items' = DetailCount
    /\ data' = ParseLoop(content, DetailCount)
    /\ out' = DetailDict(data')
    /\ UNCHANGED <<content, runVars, mapVars, filterVars>>

ParseUserItems ==
    /\ parser = "none"
    /\ \E n \in 0..MaxItems :
          /\ parser' = "user"
          /\ num_items' = n
          /\ data' = ParseLoop(content, n)
          /\ out' = UserDict(data', n)
    /\ UNCHANGED <<content, runVars, mapVars, filterVars>>

NextParse == ParseMeta \/ ParseDetail \/ ParseUserItems

SpecParse == InitParse /\ [][NextParse]_vars

----------------------------------------------------------------------------
(* The field extractors: one text-generation call each.  A response is the *)
(* outcome of openai.chat.completions.create: it failed (any exception in  *)
(* the try block), or it carries the text of the first choice.             *)

Failure == [ok |-> FALSE, content |-> <<>>]

Answer(text) == [ok |-> TRUE, content |-> text]

Responses(texts) == {Failure} \cup {Answer(t) : t \in texts}

extract_meta_info(resp) ==
    IF ~resp.ok
    THEN [study_title |-> NA,
          population_outcome_measured_in |-> NA,
          population_intervention_affected_or_predictor |-> NA,
          secondary_characteristics |-> NA,
          country |-> NA,
          study_type_letter |-> NA,
          num_main_results |-> <<"0">>,
          main_results_list |-> NA]
    ELSE parse_meta_extraction(Strip(resp.content))

\* the all-"NA" record of the detail pass
NADetail ==
    [effect_size_type |-> NA,
     effect_size |-> NA,
     effect_size_uncertainty |-> NA,
     p_value |-> NA,
     total_sample_size |-> NA,
     intervention_or_predictor_variable |-> NA,
     outcome_variable |-> NA]

extract_result_details(resp) ==
    IF ~resp.ok THEN NADetail ELSE parse_detail_extraction(Strip(resp.content))

\* the empty dict
EmptyDict == [key \in {} |-> NA]

\* the fallback of extract_user_items:
\* {f"extra_{i}": "NA" for i in range(1, len(user_items) + 1)}
UserFallback(k) == [key \in {ExtraKey(i) : i \in 1..k} |-> NA]

\* k is len(user_items); with no items no call is made
extract_user_items(k, resp) ==
    IF k = 0 THEN EmptyDict
    ELSE IF ~resp.ok THEN UserFallback(k)
    ELSE parse_user_items_response(Strip(resp.content), k)

----------------------------------------------------------------------------
(* Result reconciliation and row building of run_three_pass_extraction *)

\* the value of a string of decimal digits
RECURSIVE Decimal(_)
Decimal(t) ==
    IF t = <<>> THEN 0
    ELSE 10 * Decimal(SubSeq(t, 1, Len(t) - 1))
            + (CHOOSE d \in 0..9 : DigitChars[d + 1] = t[Len(t)])

\* int(s) succeeds on an optionally signed string of digits, spaces around it
\* allowed (digit-group underscores are left out of the model)
IntBody(s) ==
    LET t == Strip(s)
    IN  IF t # <<>> /\ t[1] \in {"+", "-"} THEN Tail(t) ELSE t

ParsesAsInt(s) ==
    LET body == IntBody(s)
    IN  body # <<>> /\ \A j \in 1..Len(body) : IsDigit(body[j])

\* try: int(s)  except: 0
IntOrZero(s) ==
    IF ParsesAsInt(s)
    THEN IF Strip(s)[1] = "-" THEN 0 - Decimal(IntBody(s)) ELSE Decimal(IntBody(s))
    ELSE 0

\* s.split(";")
RECURSIVE Split(_)
Split(s) ==
    LET semis == {j \in 1..Len(s) : s[j] = ";"}
    IN  IF semis = {} THEN <<s>>
        ELSE <<SubSeq(s, 1, Min(semis) - 1)>>
                \o Split(SubSeq(s, Min(semis) + 1, Len(s)))

NonEmpty(x) == x # <<>>

\* main_results_list computed from main_results_str
SplitResults(main_results_str) ==
    IF main_results_str # <<>> /\ main_results_str # NA
    THEN LET raw == Split(main_results_str)
             parts == [j \in 1..Len(raw) |-> Strip(raw[j])]
         IN  SelectSeq(parts, NonEmpty)
    ELSE <<>>

\* a faulty variant of Reconciled: the reported count is kept
ReconciledKeepReported(reported, list) == reported

\* num_results after the mismatch check
Reconciled(reported, list) ==
    IF reported # Len(list) THEN Len(list) ELSE reported

\* pdf_file.name of the document at position d of the listing
FileName(d) == <<"f">> \o Str(d)

build_row(pdf_file, meta, index, result_text, detail, user) ==
    user @@
    [filename |-> pdf_file,
     study_title |-> meta.study_title,
     population_outcome_measured_in |-> meta.population_outcome_measured_in,
     population_intervention_affected_or_predictor |->
         meta.population_intervention_affected_or_predictor,
     secondary_characteristics |-> meta.secondary_characteristics,
     country |-> meta.country,
     study_type_letter |-> meta.study_type_letter,
     num_main_results |-> meta.num_main_results,
     main_result_index |-> index,
     main_result_text |-> result_text,
     effect_size_type |-> detail.effect_size_type,
     effect_size |-> detail.effect_size,
     effect_size_uncertainty |-> detail.effect_size_uncertainty,
     p_value |-> detail.p_value,
     total_sample_size |-> detail.total_sample_size,
     intervention_or_predictor_variable |->
         detail.intervention_or_predictor_variable,
     outcome_variable |-> detail.outcome_variable]

\* a faulty variant of ZeroRow: the synthetic row is numbered like a first result
ZeroRowIndexOne(pdf_file, meta, user) ==
    build_row(pdf_file, meta, 1, NA, NADetail, user)

\* the single row of a study with no main result
ZeroRow(pdf_file, meta, user) ==
    build_row(pdf_file, meta, 0, NA, NADetail, user)

\* a faulty variant of AppendRow: the new row replaces the rows built before
AppendRowReplace(rows, row) == <<row>>

\* results_rows.append(row_data)
AppendRow(rows, row) == Append(rows, row)

\* the columns of the output file
BaseFields ==
    <<"filename", "study_title", "population_outcome_measured_in",
      "population_intervention_affected_or_predictor",
      "secondary_characteristics", "country", "study_type_letter",
      "num_main_results", "main_result_index", "main_result_text",
      "effect_size_type", "effect_size", "effect_size_uncertainty", "p_value",
      "total_sample_size", "intervention_or_predictor_variable",
      "outcome_variable">>

FieldNames(k) == BaseFields \o [i \in 1..k |-> ExtraKey(i - 1)]

Range(f) == {f[x] : x \in DOMAIN f}

\* csv.DictWriter.writerow with the default extrasaction="raise": a key
\* outside fieldnames raises ValueError
RowRaises(row, fieldnames) == ~(DOMAIN row \subseteq Range(fieldnames))

\* str(value) of a cell; main_result_index is the only number of a row
CellText(field, value) == IF field = "main_result_index" THEN Str(value) ELSE value

\* a faulty variant of Cells: a value "NA" is written as an empty cell
CellsBlankNA(row, fieldnames) ==
    [c \in 1..Len(fieldnames) |->
        IF fieldnames[c] \in DOMAIN row
              /\ CellText(fieldnames[c], row[fieldnames[c]]) # NA
        THEN CellText(fieldnames[c], row[fieldnames[c]])
        ELSE <<>>]

\* the cells of a written row; a missing key is written as restval ""
Cells(row, fieldnames) ==
    [c \in 1..Len(fieldnames) |->
        IF fieldnames[c] \in DOMAIN row
        THEN CellText(fieldnames[c], row[fieldnames[c]])
        ELSE <<>>]

----------------------------------------------------------------------------
(* Inputs of a run *)

\* the text extract_text_from_pdf returns: blank (also after a failed read)
\* or not
PaperTexts == {<<"\n">>, <<"a">>}

Folders ==
    {[exists |-> FALSE, files |-> <<>>]} \cup
    {[exists |-> TRUE, files |-> f] :
        f \in UNION {[1..n -> PaperTexts] : n \in 0..MaxDocs}}

\* answers of the meta pass: no label at all; two results and an empty part
\* under a reported count of 5; only empty parts under a reported count of 1;
\* all eight labels, with one result under a reported count of 1
MetaAnswers ==
    {<<"a">>,
     Label(7) \o <<" ", "5", "\n">> \o Label(8) \o <<" ", "a", ";", " ", ";", "b">>,
     Label(7) \o <<" ", "1", "\n">> \o Label(8) \o <<" ", ";", "\n", ";">>,
     Numbered(6, [i \in 1..6 |-> <<" ", "x", "\n">>])
        \o Label(7) \o <<" ", "1", "\n">> \o Label(8) \o <<" ", "c", "\n">>}

DetailAnswers ==
    {Label(1) \o <<" ", "a", "\n">> \o Label(6) \o <<" ", "b", "\n">>
        \o Label(7) \o <<" ", "c">>}

UserAnswers == {Label(1) \o <<" ", "a", "\n">> \o Label(2) \o <<" ", "b">>}

----------------------------------------------------------------------------
(* run_three_pass_extraction, one step per text-generation call *)

ParseIdle ==
    /\ content = <<>>
    /\ parser = "none"
    /\ num_items = 0
    /\ data = <<>>
    /\ out = <<>>

Init ==
    /\ ParseIdle
    /\ MapIdle
    /\ FilterIdle
    /\ pc = "start"
    /\ pdf_folder \in Folders
    /\ user_items \in 0..MaxLabels
    /\ doc = 0
    /\ meta_data = <<>>
    /\ user_data = <<>>
    /\ num_results = 0
    /\ main_results_list = <<>>
    /\ result_index = 0
    /\ results_rows = <<>>
    /\ calls = <<>>
    /\ reconciled = <<>>
    /\ persisted = [written |-> FALSE, header |-> <<>>, rows |-> <<>>]

Call(pass, index, resp) == [pass |-> pass, doc |-> doc, index |-> index, ok |-> resp.ok]

\* the folder does not exist: the run returns and writes nothing
FolderMissing ==
    /\ pc = "start"
    /\ ~pdf_folder.exists
    /\ pc' = "returned"
    /\ UNCHANGED <<parseVars, mapVars, filterVars,
                   pdf_folder, user_items, doc, meta_data, user_data,
                   num_results, main_results_list, result_index, results_rows,
                   calls, reconciled, persisted>>

FolderFound ==
    /\ pc = "start"
    /\ pdf_folder.exists
    /\ pc' = "loop"
    /\ UNCHANGED <<parseVars, mapVars, filterVars,
                   pdf_folder, user_items, doc, meta_data, user_data,
                   num_results, main_results_list, result_index, results_rows,
                   calls, reconciled, persisted>>

\* a document with no text is skipped
SkipDocument ==
    /\ pc = "loop"
    /\ doc < Len(pdf_folder.files)
    /\ Strip(pdf_folder.files[doc + 1]) = <<>>
    /\ doc' = doc + 1
    /\ UNCHANGED <<parseVars, mapVars, filterVars,
                   pc, pdf_folder, user_items, meta_data, user_data,
                   num_results, main_results_list, result_index, results_rows,
                   calls, reconciled, persisted>>

ReadDocument ==
    /\ pc = "loop"
    /\ doc < Len(pdf_folder.files)
    /\ Strip(pdf_folder.files[doc + 1]) # <<>>
    /\ doc' = doc + 1
    /\ pc' = "meta"
    /\ UNCHANGED <<parseVars, mapVars, filterVars,
                   pdf_folder, user_items, meta_data, user_data,
                   num_results, main_results_list, result_index, results_rows,
                   calls, reconciled, persisted>>

\* a faulty variant of HasUserItems: the user-items call is always made
HasUserItemsAlways(k) == TRUE

\* "if user_items:" on the list of user-supplied labels, k its length
HasUserItems(k) == k > 0

\* pass 1, then user_data = {}
MetaPass ==
    /\ pc = "meta"
    /\ \E resp \in Responses(MetaAnswers) :
          /\ meta_data' = extract_meta_info(resp)
          /\ calls' = Append(calls, Call("meta", 0, resp))
    /\ user_data' = EmptyDict
    /\ pc' = IF HasUserItems(user_items) THEN "user" ELSE "reconcile"
    /\ UNCHANGED <<parseVars, mapVars, filterVars,
                   pdf_folder, user_items, doc, num_results,
                   main_results_list, result_index, results_rows, reconciled,
                   persisted>>

\* pass 3, once per study
UserPass ==
    /\ pc = "user"
    /\ \E resp \in Responses(UserAnswers) :
          /\ user_data' = extract_user_items(user_items, resp)
          /\ calls' = Append(calls, Call("user", 0, resp))
    /\ pc' = "reconcile"
    /\ UNCHANGED <<parseVars, mapVars, filterVars,
                   pdf_folder, user_items, doc, meta_data, num_results,
                   main_results_list, result_index, results_rows, reconciled,
                   persisted>>

\* the count is reconciled; a study with no result gets its single row here
Reconcile ==
    /\ pc = "reconcile"
    /\ main_results_list' = SplitResults(meta_data.main_results_list)
    /\ num_results' = Reconciled(IntOrZero(meta_data.num_main_results),
                                 main_results_list')
    /\ IF num_results' = 0
       THEN /\ results_rows' = AppendRow(results_rows,
                                    ZeroRow(FileName(doc), meta_data, user_data))
            /\ pc' = "loop"
            /\ UNCHANGED result_index
       ELSE /\ result_index' = 1
            /\ pc' = "detail"
            /\ UNCHANGED results_rows
    /\ reconciled' = Append(reconciled, [doc |-> doc, count |-> num_results'])
    /\ UNCHANGED <<parseVars, mapVars, filterVars,
                   pdf_folder, user_items, doc, meta_data, user_data,
                   calls, persisted>>

\* pass 2 for the result at result_index, and its row
DetailPass ==
    /\ pc = "detail"
    /\ \E resp \in Responses(DetailAnswers) :
          /\ results_rows' = AppendRow(results_rows,
                build_row(FileName(doc), meta_data, result_index,
                          main_results_list[result_index],
                          extract_result_details(resp), user_data))
          /\ calls' = Append(calls, Call("detail", result_index, resp))
    /\ IF result_index < Len(main_results_list)
       THEN /\ result_index' = result_index + 1
            /\ UNCHANGED pc
       ELSE /\ pc' = "loop"
            /\ UNCHANGED result_index
    /\ UNCHANGED <<parseVars, mapVars, filterVars,
                   pdf_folder, user_items, doc, meta_data, user_data,
                   num_results, main_results_list, reconciled, persisted>>

\* the header and the rows are written; the first row that raises ends the run
WriteCsv ==
    /\ pc = "loop"
    /\ doc = Len(pdf_folder.files)
    /\ LET fieldnames == FieldNames(user_items)
           bad == {j \in 1..Len(results_rows) : RowRaises(results_rows[j], fieldnames)}
           written == IF bad = {} THEN Len(results_rows) ELSE Min(bad) - 1
       IN  /\ persisted' = [written |-> TRUE,
                            header |-> fieldnames,
                            rows |-> [j \in 1..written |->
                                        Cells(results_rows[j], fieldnames)]]
           /\ pc' = IF bad = {} THEN "done" ELSE "raised"
    /\ UNCHANGED <<parseVars, mapVars, filterVars,
                   pdf_folder, user_items, doc, meta_data, user_data,
                   num_results, main_results_list, result_index, results_rows,
                   calls, reconciled>>

Next ==
    \/ FolderMissing
    \/ FolderFound
    \/ SkipDocument
    \/ ReadDocument
    \/ MetaPass
    \/ UserPass
    \/ Reconcile
    \/ DetailPass
    \/ WriteCsv

Spec == Init /\ [][Next]_vars

----------------------------------------------------------------------------
(* Properties of the enumerated-answer parsers, checked under SpecParse *)

\* the positions at which the characters of label i stand in s
LiteralPositions(s, i) ==
    LET lab == Label(i)
    IN  {p \in 1..Len(s) : s[p] = lab[1] /\ StartsAt(s, p - 1, lab)}

\* the positions at which label i stands as a label: its digits are not the
\* tail of a longer word
LabelPositions(s, i) ==
    {p \in LiteralPositions(s, i) : p = 1 \/ ~IsWord(s[p - 1])}

\* the first position after the label of item i that stands at p
After(p, i) == p + Len(Label(i))

\* a value as a parser reports it: the trimmed text, "NA" when nothing is left
Reported(text) == IF Strip(text) = <<>> THEN NA ELSE Strip(text)

\* a parser value: "NA", or a non-empty string with no space at either end
IsValue(v) == v = NA \/ (v # <<>> /\ ~IsSpace(v[1]) /\ ~IsSpace(v[Len(v)]))

\* C1: whatever the text and the expected count N, each parser returns
\* exactly N values (N list entries, N keys in the returned record), each of
\* them "NA" or a non-empty string without leading or trailing whitespace.
C1_ParserTotality ==
    parser # "none" =>
        /\ Len(data) = num_items
        /\ Cardinality(DOMAIN out) = num_items
        /\ \A i \in 1..num_items : IsValue(data[i])
        /\ \A key \in DOMAIN out : IsValue(out[key])

\* C1 witness: a three-item answer parsed into a text value, and "NA" twice
\* for a blank span and a missing label
C1_Witness ==
    /\ parser = "user"
    /\ num_items = 3
    /\ content = <<"1", ":", "a", "\n", "2", ":">>
    /\ data = <<<<"a">>, NA, NA>>
    /\ Cardinality(DOMAIN out) = 3

\* every label 1..n stands exactly once in s, in increasing order
WellNumbered(s, n) ==
    /\ \A i \in 1..n : Cardinality(LabelPositions(s, i)) = 1
    /\ \A i \in 1..(n - 1) :
          \A p \in LabelPositions(s, i) : \A q \in LabelPositions(s, i + 1) : p < q

\* the text between the label of item i and the label of item i+1, or the end
\* of the text for the last item, in a well-numbered text
Between(s, i, n) ==
    LET p == CHOOSE x \in LabelPositions(s, i) : TRUE
        stop == IF i < n THEN (CHOOSE x \in LabelPositions(s, i + 1) : TRUE) - 1
                ELSE Len(s)
    IN  SubSeq(s, After(p, i), stop)

\* C2: in a text where the labels "1:" .. "N:" stand once each, in increasing
\* order, the value of item i < N is the trimmed text between label i and
\* label i+1 and the value of item N is the trimmed text after label N (a span
\* that trims to nothing is reported as "NA"); the meta and detail records
\* carry these values under their field names.
C2_SpanExtraction ==
    (parser # "none" /\ num_items >= 1 /\ WellNumbered(content, num_items)) =>
        LET expected == [i \in 1..num_items |->
                            Reported(Between(content, i, num_items))]
        IN  /\ data = expected
            /\ parser = "meta" => out = MetaDict(expected)
            /\ parser = "detail" => out = DetailDict(expected)

\* C2 witness: "1: a\n2: a\n" parsed with N = 2 gives ["a", "a"]
C2_Witness ==
    /\ parser = "user"
    /\ num_items = 2
    /\ content = <<"1", ":", " ", "a", "\n", "2", ":", " ", "a", "\n">>
    /\ data = <<<<"a">>, <<"a">>>>

\* the label characters at p are the tail of a longer number
InsideNumber(s, p) == p > 1 /\ IsDigit(s[p - 1])

\* C3: a place where the digits of i are only the tail of a longer number is
\* never taken for label i.  As the start of item i: when every place the
\* characters "i:" stand at is inside a longer number, item i is "NA".  As the
\* end of item i-1: when item i-1 has its label and every later "i:" is inside
\* a longer number, the value of item i-1 runs to the end of the text.
C3_BoundaryAware ==
    parser # "none" =>
        \A i \in 1..num_items :
            LET here == LiteralPositions(content, i)
                before == IF i > 1 THEN LabelPositions(content, i - 1) ELSE {}
            IN  /\ (\A p \in here : InsideNumber(content, p)) => data[i] = NA
                /\ (/\ before # {}
                    /\ \A p \in here :
                          p > Min(before) => InsideNumber(content, p))
                      => data[i - 1] =
                            Reported(SubSeq(content, After(Min(before), i - 1),
                                            Len(content)))

\* C3 witness: in "1:\n12:" the characters "2:" stand only inside "12:";
\* item 2 is "NA" and item 1 is not cut there
C3_Witness ==
    /\ parser = "user"
    /\ num_items = 2
    /\ content = <<"1", ":", "\n", "1", "2", ":">>
    /\ data = <<<<"1", "2", ":">>, NA>>

\* a digit directly followed by a colon
HasNumericLabel(s) == \E p \in 1..(Len(s) - 1) : IsDigit(s[p]) /\ s[p + 1] = ":"

\* C4: item i is "NA" when the characters "i:" stand nowhere in the text, and
\* when only whitespace lies between its label and the next label of item i+1
\* (or the end of the text); a text with no numeric label gives N times "NA".
C4_GracefulDegradation ==
    parser # "none" =>
        /\ \A i \in 1..num_items :
              LET here == LabelPositions(content, i)
                  from == After(Min(here), i)
                  stops == {Len(content) + 1} \cup
                           (IF i < num_items
                            THEN {p \in LabelPositions(content, i + 1) : p >= from}
                            ELSE {})
              IN  /\ LiteralPositions(content, i) = {} => data[i] = NA
                  /\ (/\ here # {}
                      /\ \E stop \in stops :
                            \A q \in from..(stop - 1) : IsSpace(content[q]))
                        => data[i] = NA
        /\ ~HasNumericLabel(content) =>
              /\ \A i \in 1..num_items : data[i] = NA
              /\ \A key \in DOMAIN out : out[key] = NA

\* C4 witness: "a\n1:\n" parsed with N = 3: the span of item 1 is blank and
\* the labels of items 2 and 3 are missing
C4_Witness ==
    /\ parser = "user"
    /\ num_items = 3
    /\ content = <<"a", "\n", "1", ":", "\n">>
    /\ data = <<NA, NA, NA>>

\* C5: the record of parse_user_items_response has exactly the keys
\* "extra_0" .. "extra_{k-1}", and the value under "extra_{i-1}" is the value
\* parsed for label i.
C5_PositionalKeying ==
    parser = "user" =>
        /\ DOMAIN out = {ExtraKey(i - 1) : i \in 1..num_items}
        /\ \A i \in 1..num_items : out[ExtraKey(i - 1)] = data[i]

----------------------------------------------------------------------------
(* Properties of the extractors and of the batch run, checked under Spec *)

\* the last text-generation call issued
LastCall == calls[Len(calls)]

\* the free-text fields of the meta record (num_main_results is the count)
MetaTextFields ==
    {"study_title", "population_outcome_measured_in",
     "population_intervention_affected_or_predictor",
     "secondary_characteristics", "country", "study_type_letter",
     "main_results_list"}

DetailFields == DOMAIN NADetail

\* C6: when the text-generation call of an extractor fails, the record it
\* returns has the field names of a successful call, every free-text field
\* being "NA": the eight meta fields, the seven detail fields (seen in the row
\* built from them), the keys "extra_0" .. "extra_{k-1}" for k user labels.
C6_DegradedShape ==
    (calls # <<>> /\ ~LastCall.ok) =>
        /\ LastCall.pass = "meta" =>
              /\ DOMAIN meta_data = DOMAIN parse_meta_extraction(<<>>)
              /\ \A f \in MetaTextFields : meta_data[f] = NA
        /\ LastCall.pass = "user" =>
              /\ DOMAIN user_data = DOMAIN parse_user_items_response(<<>>, user_items)
              /\ DOMAIN user_data = {ExtraKey(i) : i \in 0..(user_items - 1)}
              /\ \A key \in DOMAIN user_data : user_data[key] = NA
        /\ LastCall.pass = "detail" =>
              /\ DetailFields \subseteq DOMAIN results_rows[Len(results_rows)]
              /\ \A f \in DetailFields : results_rows[Len(results_rows)][f] = NA

\* C7: whatever calls fail, the run ends without raising, and the rows of
\* every processed document are in the written file.
C7_BatchIsolation ==
    /\ pc # "raised"
    /\ pc = "done" => Len(persisted.rows) = Len(results_rows)

\* the index (from 0) of the ";"-delimited segment position p lies in
SegmentOf(s, p) == Cardinality({q \in 1..(p - 1) : s[q] = ";"})

\* the positions of s that hold neither a ";" nor whitespace
Solid(s) == {p \in 1..Len(s) : s[p] # ";" /\ ~IsSpace(s[p])}

\* the segments of s that do not trim to nothing
LiveSegments(s) == {SegmentOf(s, p) : p \in Solid(s)}

\* the number of non-empty trimmed parts of raw-results-text
PartCount(s) == IF s = NA THEN 0 ELSE Cardinality(LiveSegments(s))

\* the j-th non-empty trimmed part of raw-results-text
Part(s, j) ==
    LET live == LiveSegments(s)
        m == CHOOSE x \in live : Cardinality({y \in live : y < x}) = j - 1
        at == {p \in Solid(s) : SegmentOf(s, p) = m}
    IN  SubSeq(s, Min(at), Max(at))

\* the rows built for the document at position d of the folder
RowsOf(d) == SelectSeq(results_rows, LAMBDA row : row.filename = FileName(d))

\* the study of the current document has been reconciled
Settled == calls # <<>> /\ pc \notin {"meta", "user", "reconcile"}

\* C8: once a study is reconciled its result count is the number of non-empty
\* trimmed parts of its raw-results-text split on ";" (0 for "NA"), whatever
\* count field 7 reports; the result items and the index and text of each row
\* built for the study are the parts, in split order.
C8_Reconciliation ==
    Settled =>
        LET raw == meta_data.main_results_list
        IN  /\ num_results = PartCount(raw)
            /\ Len(main_results_list) = PartCount(raw)
            /\ \A j \in 1..Len(main_results_list) :
                  main_results_list[j] = Part(raw, j)
            /\ \A r \in 1..Len(RowsOf(doc)) :
                  LET row == RowsOf(doc)[r]
                  IN  IF PartCount(raw) = 0
                      THEN row.main_result_index = 0 /\ row.main_result_text = NA
                      ELSE /\ row.main_result_index = r
                           /\ row.main_result_text = Part(raw, r)

\* C8 witness: field 7 reports 5, the text "a; ;b" has two parts, and both
\* rows are built
C8_Witness ==
    /\ pc = "loop"
    /\ calls # <<>>
    /\ meta_data.num_main_results = <<"5">>
    /\ meta_data.main_results_list = <<"a", ";", " ", ";", "b">>
    /\ num_results = 2
    /\ Len(RowsOf(doc)) = 2

\* the documents the loop has finished with
Finished == IF pc \in {"meta", "user", "reconcile", "detail"}
            THEN 1..(doc - 1) ELSE 1..doc

\* the reconciled counts recorded for the document at position d
CountsOf(d) == {reconciled[j].count : j \in {x \in 1..Len(reconciled) : reconciled[x].doc = d}}

\* C9 as stated: every document of the folder contributes at least one row,
\* max(1, reconciled count) rows in all.
C9_EveryDocumentHasRows ==
    pc \in {"done", "raised"} =>
        \A d \in 1..Len(pdf_folder.files) :
            /\ Len(RowsOf(d)) >= 1
            /\ \A n \in CountsOf(d) : Len(RowsOf(d)) = Max({1, n})

\* C9 amended: every document whose extracted text is not blank contributes
\* max(1, reconciled count) rows, so at least one; a document whose text is
\* blank is skipped and contributes no row.
C9_RowCount ==
    \A d \in Finished :
        IF Strip(pdf_folder.files[d]) = <<>>
        THEN CountsOf(d) = {} /\ Len(RowsOf(d)) = 0
        ELSE /\ Cardinality(CountsOf(d)) = 1
             /\ \A n \in CountsOf(d) : Len(RowsOf(d)) = Max({1, n})
             /\ Len(RowsOf(d)) >= 1

\* C9 witness: a finished run over a blank document, a study with two
\* results and a study with none
C9_Witness ==
    /\ pc \in {"done", "raised"}
    /\ \E d \in 1..Len(pdf_folder.files) : Strip(pdf_folder.files[d]) = <<>>
    /\ \E d \in 1..Len(pdf_folder.files) : CountsOf(d) = {2} /\ Len(RowsOf(d)) = 2

\* C10: a study whose reconciled count is 0 has exactly one row, with
\* main_result_index 0, main_result_text "NA" and the seven detail fields
\* "NA", and no detail call is issued for it.
C10_ZeroResultRow ==
    \A j \in 1..Len(reconciled) :
        reconciled[j].count = 0 =>
            LET d == reconciled[j].doc
            IN  /\ Len(RowsOf(d)) = 1
                /\ RowsOf(d)[1].main_result_index = 0
                /\ RowsOf(d)[1].main_result_text = NA
                /\ \A f \in DetailFields : RowsOf(d)[1][f] = NA
                /\ \A c \in 1..Len(calls) :
                      ~(calls[c].pass = "detail" /\ calls[c].doc = d)

\* C10 witness: field 7 reports 1 but every part of the text is empty; the
\* study is followed by one with results
C10_Witness ==
    /\ pc \in {"done", "raised"}
    /\ \E j \in 1..Len(reconciled) :
          /\ reconciled[j].count = 0
          /\ RowsOf(reconciled[j].doc)[1].num_main_results = <<"1">>
    /\ \E j \in 1..Len(reconciled) : reconciled[j].count = 2

----------------------------------------------------------------------------
(* Properties of the written table, checked under Spec *)

\* the column of the written table that carries field
ColumnOf(field) == CHOOSE c \in 1..Len(persisted.header) : persisted.header[c] = field

\* the calls of the run that failed
FailedCalls == {calls[c] : c \in {x \in 1..Len(calls) : ~calls[x].ok}}

\* the meta fields that are columns of the table and hold free text
MetaTextColumns == MetaTextFields \ {"main_results_list"}

\* C11: in the table a run has written, whatever calls failed and whatever
\* labels the answers lacked, the header is filename .. outcome_variable,
\* extra_0 .. extra_{k-1}, every row has one cell per column and no cell is
\* empty or blank; the cells of what a failed call should have delivered
\* (the free-text meta fields of the study, the detail fields of the result)
\* are exactly "NA".
C11_SentinelConsistency ==
    persisted.written =>
        /\ persisted.header = FieldNames(user_items)
        /\ \A j \in 1..Len(persisted.rows) :
              LET cells == persisted.rows[j]
                  row == results_rows[j]
              IN  /\ Len(cells) = Len(persisted.header)
                  /\ \A c \in 1..Len(cells) : Strip(cells[c]) # <<>>
                  /\ \A call \in FailedCalls :
                        FileName(call.doc) = row.filename =>
                            /\ call.pass = "meta" =>
                                  \A f \in MetaTextColumns : cells[ColumnOf(f)] = NA
                            /\ (call.pass = "detail"
                                    /\ call.index = row.main_result_index) =>
                                  \A f \in DetailFields : cells[ColumnOf(f)] = NA

\* C11 witness: a written table with two extra columns whose rows come from
\* a study whose meta call failed and from a study with a failed detail call
C11_Witness ==
    /\ persisted.written
    /\ user_items = 2
    /\ Len(persisted.header) = 19
    /\ Len(persisted.rows) >= 2
    /\ \E call \in FailedCalls : call.pass = "meta"
    /\ \E call \in FailedCalls : call.pass = "detail"
    /\ \E j \in 1..Len(persisted.rows) :
          persisted.rows[j][ColumnOf("outcome_variable")] = NA

----------------------------------------------------------------------------
(* The order of the text-generation calls, checked under Spec *)

\* the pass and index of each call issued for the document at position d
CallsOf(d) ==
    LET mine == SelectSeq(calls, LAMBDA c : c.doc = d)
    IN  [j \in 1..Len(mine) |-> [pass |-> mine[j].pass, index |-> mine[j].index]]

\* the calls of a study with count results
ExpectedCalls(count) ==
    <<[pass |-> "meta", index |-> 0]>>
        \o (IF user_items > 0 THEN <<[pass |-> "user", index |-> 0]>> ELSE <<>>)
        \o [i \in 1..count |-> [pass |-> "detail", index |-> i]]

\* C17: the calls of a processed document are one meta call, then one
\* user-items call exactly when the user supplied a label, then one detail
\* call per result item with the indices 1..count in order, a failed call
\* included and never repeated; the rows of the document carry the same
\* indices in the same order; the calls of the document in progress are a
\* start of that sequence; and a call or a row of a later document never
\* comes before one of an earlier document.
C17_CallSequence ==
    /\ \A c \in 1..Len(calls) :
          /\ calls[c].doc <= doc
          /\ c > 1 => calls[c - 1].doc <= calls[c].doc
    /\ \A r \in 2..Len(results_rows) :
          \E d \in 1..doc : \E e \in d..doc :
              /\ results_rows[r - 1].filename = FileName(d)
              /\ results_rows[r].filename = FileName(e)
    /\ \A d \in Finished :
          IF Strip(pdf_folder.files[d]) = <<>>
          THEN CallsOf(d) = <<>>
          ELSE \A n \in CountsOf(d) :
                  /\ CallsOf(d) = ExpectedCalls(n)
                  /\ n > 0 => /\ Len(RowsOf(d)) = n
                              /\ \A r \in 1..n : RowsOf(d)[r].main_result_index = r
    /\ pc = "meta" => CallsOf(doc) = <<>> /\ RowsOf(doc) = <<>>
    /\ pc = "user" =>
          /\ CallsOf(doc) = <<[pass |-> "meta", index |-> 0]>>
          /\ RowsOf(doc) = <<>>
    /\ pc = "reconcile" => CallsOf(doc) = ExpectedCalls(0) /\ RowsOf(doc) = <<>>
    /\ pc = "detail" =>
          /\ result_index \in 1..Len(main_results_list)
          /\ CallsOf(doc) = ExpectedCalls(result_index - 1)
          /\ Len(RowsOf(doc)) = result_index - 1

\* C17 witness: a finished run with user labels over two studies: the first
\* has two results and a failed detail call, the second has a failed meta
\* call; six calls were issued in all
C17_Witness ==
    /\ pc \in {"done", "raised"}
    /\ user_items > 0
    /\ Len(pdf_folder.files) = 2
    /\ CallsOf(1) = ExpectedCalls(2)
    /\ CallsOf(2) = ExpectedCalls(0)
    /\ \E c \in 1..Len(calls) : calls[c].pass = "detail" /\ ~calls[c].ok
    /\ ~calls[5].ok
    /\ Len(calls) = 6

----------------------------------------------------------------------------
(* The span of an item whose next label is missing, checked under SpecParse *)

\* where the span of item i starts: right after the first label of item i
SpanStart(s, i) == After(Min(LabelPositions(s, i)), i)

\* the labels of item i + 1 that stand at or after the start of the span of
\* item i
NextLabels(s, i) == {q \in LabelPositions(s, i + 1) : q >= SpanStart(s, i)}

\* some label of an item after i + 1 stands inside the span of item i
LaterLabelInside(s, i, n) ==
    \E j \in (i + 2)..n : \E q \in LabelPositions(s, j) : q >= SpanStart(s, i)

\* C19: the span of item i starts after the first label "i:" of the text.
\* When i < N and no label of item i+1 stands after that place, the value of
\* item i is the trimmed rest of the text to its end, later labels and their
\* answers included, and each later item that has a label still gets the
\* value that starts after its own first label.
C19_MissingNextLabel ==
    parser # "none" =>
        \A i \in 1..num_items :
            LabelPositions(content, i) # {} =>
                LET from == SpanStart(content, i)
                    nexts == IF i < num_items THEN NextLabels(content, i) ELSE {}
                    stop == IF nexts = {} THEN Len(content) ELSE Min(nexts) - 1
                IN  /\ data[i] = Reported(SubSeq(content, from, stop))
                    /\ (i < num_items /\ nexts = {}) =>
                          data[i] = Reported(SubSeq(content, from, Len(content)))

\* C19 witness: "1:\n3:a" parsed with N = 3: no label "2:" follows, item 1 is
\* "3:a", item 2 is "NA" and item 3 is "a"
C19_Witness ==
    /\ parser = "user"
    /\ num_items = 3
    /\ content = <<"1", ":", "\n", "3", ":", "a">>
    /\ NextLabels(content, 1) = {}
    /\ LaterLabelInside(content, 1, 3)
    /\ data = <<<<"3", ":", "a">>, NA, <<"a">>>>

----------------------------------------------------------------------------
(* The ontology matcher of ontology_mapping.py.  An embedding is a vector  *)
(* of integers; a similarity is kept exact as the pair of the dot product  *)
(* and the product of the squared norms, its value being dot / sqrt(norm2). *)

intervention_col == "4"

outcome_col == "7"

\* the letters of the texts of this part, in both cases
LowerCase == <<"a", "b", "c", "d", "e", "i", "l", "n", "q", "t", "u", "x">>

UpperCase == <<"A", "B", "C", "D", "E", "I", "L", "N", "Q", "T", "U", "X">>

\* str.upper()
Upper(s) ==
    [j \in 1..Len(s) |->
        IF \E k \in 1..Len(LowerCase) : LowerCase[k] = s[j]
        THEN UpperCase[CHOOSE k \in 1..Len(LowerCase) : LowerCase[k] = s[j]]
        ELSE s[j]]

\* str.lower()
Lower(s) ==
    [j \in 1..Len(s) |->
        IF \E k \in 1..Len(UpperCase) : UpperCase[k] = s[j]
        THEN LowerCase[CHOOSE k \in 1..Len(UpperCase) : UpperCase[k] = s[j]]
        ELSE s[j]]

\* lit in s
Contains(s, lit) == \E o \in 0..Len(s) : StartsAt(s, o, lit)

\* str(float("nan"))
NaNText == <<"n", "a", "n">>

\* the cell texts pandas.read_csv reads as NaN by default, as far as the texts
\* of the model go
NaMarkers == {<<>>, NA, NaNText}

\* a cell as read_csv delivers it and str() prints it
ReadCell(cell) == IF cell \in NaMarkers THEN NaNText ELSE cell

\* pd.read_csv: one record per row, keyed by the header
ReadCsv(table) ==
    [j \in 1..Len(table.rows) |->
        [col \in Range(table.header) |->
            ReadCell(table.rows[j][CHOOSE c \in 1..Len(table.header) :
                                       table.header[c] = col])]]

\* row.get(col, default)
RowGet(row, col, default) == IF col \in DOMAIN row THEN row[col] ELSE default

\* an entry of a JSON list: a string, a record with or without the key
\* "term", or a number
JsonStr(text) == [kind |-> "str", has_term |-> FALSE, term |-> text]

JsonRecord(text) == [kind |-> "dict", has_term |-> TRUE, term |-> text]

JsonRecordNoTerm == [kind |-> "dict", has_term |-> FALSE, term |-> <<>>]

JsonNumber == [kind |-> "num", has_term |-> FALSE, term |-> <<>>]

\* an ontology file: a table (its term column, or else its first column, is
\* kept in items), a JSON document, or a file of another extension
CsvFile(values) == [ext |-> ".csv", is_list |-> TRUE,
                    items |-> [j \in 1..Len(values) |-> JsonStr(values[j])]]

JsonFile(items) == [ext |-> ".json", is_list |-> TRUE, items |-> items]

JsonNotAList == [ext |-> ".json", is_list |-> FALSE, items |-> <<>>]

OtherFile == [ext |-> ".txt", is_list |-> FALSE, items |-> <<>>]

TermKey == <<"t", "e", "r", "m">>

\* "term" in item raises TypeError on a number
InRaises(item) == item.kind = "num"

\* "term" in item: a key of a record, a substring of a string
HasTermKey(item) ==
    IF item.kind = "dict" THEN item.has_term ELSE Contains(item.term, TermKey)

\* item["term"] raises TypeError on a string
SubscriptRaises(item) == item.kind = "str"

Loaded(terms) == [raised |-> FALSE, terms |-> terms]

LoadRaised == [raised |-> TRUE, terms |-> <<>>]

load_ontology(file) ==
    IF file.ext = ".csv"
    THEN Loaded([j \in 1..Len(file.items) |-> file.items[j].term])
    ELSE IF file.ext = ".json"
    THEN IF file.is_list /\ Len(file.items) > 0
         THEN IF file.items[1].kind = "dict" /\ file.items[1].has_term
              THEN IF \E j \in 1..Len(file.items) :
                         \/ InRaises(file.items[j])
                         \/ HasTermKey(file.items[j]) /\ SubscriptRaises(file.items[j])
                   THEN LoadRaised
                   ELSE LET with == SelectSeq(file.items, HasTermKey)
                        IN  Loaded([j \in 1..Len(with) |-> with[j].term])
              ELSE IF \A j \in 1..Len(file.items) : file.items[j].kind = "str"
                   THEN Loaded([j \in 1..Len(file.items) |-> file.items[j].term])
                   ELSE Loaded(<<>>)
         ELSE Loaded(<<>>)
    ELSE Loaded(<<>>)

\* the vector the embedding model gives for a text
Embedding(text) ==
    IF text = <<"a">> THEN <<1, 0>>
    ELSE IF text = <<"b">> THEN <<0, 1>>
    ELSE IF text = <<"c">> THEN <<1, 1>>
    ELSE IF text = <<"q">> THEN <<2, 2>>
    ELSE IF text = NaNText THEN <<0, 3>>
    ELSE <<0, 0>>

\* compute_embedding: the vector, or [] when the call raised
compute_embedding(text, ok) == IF ok THEN Embedding(text) ELSE <<>>

RECURSIVE Dot(_, _)
Dot(a, b) == IF a = <<>> THEN 0 ELSE a[1] * b[1] + Dot(Tail(a), Tail(b))

Zero == [dot |-> 0, norm2 |-> 1]

cosine_similarity(vec_a, vec_b) ==
    IF vec_a = <<>> \/ vec_b = <<>> THEN Zero
    ELSE IF Dot(vec_a, vec_a) = 0 \/ Dot(vec_b, vec_b) = 0 THEN Zero
    ELSE [dot |-> Dot(vec_a, vec_b),
          norm2 |-> Dot(vec_a, vec_a) * Dot(vec_b, vec_b)]

\* x < y for two similarities
SimLess(x, y) ==
    IF x.dot < 0
    THEN y.dot >= 0 \/ x.dot * x.dot * y.norm2 > y.dot * y.dot * x.norm2
    ELSE y.dot > 0 /\ x.dot * x.dot * y.norm2 < y.dot * y.dot * x.norm2

\* a faulty variant of ArgMax: the last of the largest entries
ArgMaxLast(sims) ==
    Max({k \in 1..Len(sims) : \A j \in 1..Len(sims) : ~SimLess(sims[k], sims[j])})

\* np.argmax: the first of the largest entries
ArgMax(sims) ==
    Min({k \in 1..Len(sims) : \A j \in 1..Len(sims) : ~SimLess(sims[k], sims[j])})

\* the frame of terms and embeddings; oks[j] tells whether the call for term
\* j succeeded
create_ontology_embeddings(terms, oks) ==
    [j \in 1..Len(terms) |->
        [term |-> terms[j], embedding |-> compute_embedding(terms[j], oks[j])]]

\* the calls create_ontology_embeddings issues, in order
OntologyCalls(ontology, terms, oks) ==
    [j \in 1..Len(terms) |->
        [phase |-> "ontology", ontology |-> ontology, row |-> 0,
         text |-> terms[j], ok |-> oks[j]]]

\* the similarities of the loop over onto_df
Sims(item_embedding, onto_df) ==
    [j \in 1..Len(onto_df) |-> cosine_similarity(item_embedding, onto_df[j].embedding)]

find_best_match_in_ontology(item_text, onto_df, ok) ==
    IF onto_df = <<>> THEN NA
    ELSE onto_df[ArgMax(Sims(compute_embedding(item_text, ok), onto_df))].term

\* the text is matched: it is neither empty nor "NA" in any case of letters
Matched(text) == text # <<>> /\ Upper(text) # NA

\* best_interv_term / best_out_term of one row
BestTerm(text, onto_df, ok) ==
    IF Matched(text) THEN find_best_match_in_ontology(text, onto_df, ok) ELSE NA

\* the embedding calls of one lookup
QueryCalls(ontology, row, text, onto_df, ok) ==
    IF Matched(text) /\ onto_df # <<>>
    THEN <<[phase |-> "query", ontology |-> ontology, row |-> row,
            text |-> text, ok |-> ok]>>
    ELSE <<>>

\* the call of find_best_match_in_ontology of one lookup, if it is made
LookupsOf(ontology, row, text, onto_df, ok) ==
    IF Matched(text)
    THEN <<[ontology |-> ontology, row |-> row, text |-> text,
            called |-> onto_df # <<>>,
            ok |-> onto_df # <<>> /\ ok,
            item_embedding |-> IF onto_df # <<>>
                               THEN compute_embedding(text, ok) ELSE <<>>,
            result |-> find_best_match_in_ontology(text, onto_df, ok)]>>
    ELSE <<>>

----------------------------------------------------------------------------
(* Inputs of a mapping run *)

\* the header of a table written by run_three_pass_extraction (the two columns
\* the mapping is about), and a header with the columns "4" and "7"
ExtractionHeader == <<"intervention_or_predictor_variable", "outcome_variable">>

NumberedHeader == <<intervention_col, outcome_col>>

TableCells == {NA, <<"q">>}

Tables ==
    {[header |-> h, rows |-> r] :
        h \in {ExtractionHeader, NumberedHeader},
        r \in UNION {[1..n -> [1..2 -> TableCells]] : n \in 0..MaxRows}}

\* a table with a term column; a list of strings with a repeated term; a list
\* of records of which one lacks the key "term"; a list of a record and a
\* number; a list of numbers; a list whose first record lacks the key "term";
\* an empty list; a document that is not a list; a file of another extension
OntologyFiles ==
    {CsvFile(<<<<"a">>, <<"b">>>>),
     JsonFile(<<JsonStr(<<"a">>), JsonStr(<<"a">>)>>),
     JsonFile(<<JsonRecord(<<"c">>), JsonRecordNoTerm>>),
     JsonFile(<<JsonRecord(<<"a">>), JsonNumber>>),
     JsonFile(<<JsonNumber, JsonNumber>>),
     JsonFile(<<JsonRecordNoTerm, JsonRecord(<<"a">>)>>),
     JsonFile(<<>>),
     JsonNotAList,
     OtherFile}

----------------------------------------------------------------------------
(* map_interventions_and_outcomes: the loads, the two embedding passes, one *)
(* step per row, the write                                                   *)

InitMap ==
    /\ ParseIdle
    /\ RunIdle
    /\ FilterIdle
    /\ map_pc = "start"
    /\ extracted_csv \in Tables
    /\ intervention_ontology_path \in OntologyFiles
    /\ outcome_ontology_path \in OntologyFiles
    /\ df_extracted = <<>>
    /\ intervention_terms = <<>>
    /\ outcome_terms = <<>>
    /\ intervention_onto_df = <<>>
    /\ outcome_onto_df = <<>>
    /\ row_index = 0
    /\ mapped_interventions = <<>>
    /\ mapped_outcomes = <<>>
    /\ embed_calls = <<>>
    /\ lookups = <<>>
    /\ mapped_written = FALSE

\* steps 1 and 2: the table is read and both ontologies are loaded; an
\* exception of load_ontology ends the run
LoadOntologies ==
    /\ map_pc = "start"
    /\ df_extracted' = ReadCsv(extracted_csv)
    /\ LET first == load_ontology(intervention_ontology_path)
           second == load_ontology(outcome_ontology_path)
       IN  IF first.raised
           THEN /\ map_pc' = "raised"
                /\ UNCHANGED <<intervention_terms, outcome_terms>>
           ELSE IF second.raised
           THEN /\ map_pc' = "raised"
                /\ intervention_terms' = first.terms
                /\ UNCHANGED outcome_terms
           ELSE /\ map_pc' = "embed_interventions"
                /\ intervention_terms' = first.terms
                /\ outcome_terms' = second.terms
    /\ UNCHANGED <<parseVars, runVars, filterVars, extracted_csv,
                   intervention_ontology_path, outcome_ontology_path,
                   intervention_onto_df, outcome_onto_df, row_index,
                   mapped_interventions, mapped_outcomes, embed_calls, lookups,
                   mapped_written>>

\* step 3, first call of create_ontology_embeddings
EmbedInterventions ==
    /\ map_pc = "embed_interventions"
    /\ \E oks \in [1..Len(intervention_terms) -> BOOLEAN] :
          /\ intervention_onto_df' =
                create_ontology_embeddings(intervention_terms, oks)
          /\ embed_calls' = embed_calls
                \o OntologyCalls("intervention", intervention_terms, oks)
    /\ map_pc' = "embed_outcomes"
    /\ UNCHANGED <<parseVars, runVars, filterVars, extracted_csv,
                   intervention_ontology_path, outcome_ontology_path,
                   df_extracted, intervention_terms, outcome_terms,
                   outcome_onto_df, row_index, mapped_interventions,
                   mapped_outcomes, lookups, mapped_written>>

\* step 3, second call of create_ontology_embeddings
EmbedOutcomes ==
    /\ map_pc = "embed_outcomes"
    /\ \E oks \in [1..Len(outcome_terms) -> BOOLEAN] :
          /\ outcome_onto_df' = create_ontology_embeddings(outcome_terms, oks)
          /\ embed_calls' = embed_calls
                \o OntologyCalls("outcome", outcome_terms, oks)
    /\ map_pc' = "rows"
    /\ UNCHANGED <<parseVars, runVars, filterVars, extracted_csv,
                   intervention_ontology_path, outcome_ontology_path,
                   df_extracted, intervention_terms, outcome_terms,
                   intervention_onto_df, row_index, mapped_interventions,
                   mapped_outcomes, lookups, mapped_written>>

\* step 4 for one row: the two lookups and the two appends
MapRow ==
    /\ map_pc = "rows"
    /\ row_index < Len(df_extracted)
    /\ LET row == df_extracted[row_index + 1]
           extracted_interv_text == RowGet(row, intervention_col, NA)
           extracted_outcome_text == RowGet(row, outcome_col, NA)
       IN  \E ok_interv \in BOOLEAN, ok_out \in BOOLEAN :
              /\ mapped_interventions' = Append(mapped_interventions,
                    BestTerm(extracted_interv_text, intervention_onto_df, ok_interv))
              /\ mapped_outcomes' = Append(mapped_outcomes,
                    BestTerm(extracted_outcome_text, outcome_onto_df, ok_out))
              /\ embed_calls' = embed_calls
                    \o QueryCalls("intervention", row_index + 1,
                           extracted_interv_text, intervention_onto_df, ok_interv)
                    \o QueryCalls("outcome", row_index + 1,
                           extracted_outcome_text, outcome_onto_df, ok_out)
              /\ lookups' = lookups
                    \o LookupsOf("intervention", row_index + 1,
                           extracted_interv_text, intervention_onto_df, ok_interv)
                    \o LookupsOf("outcome", row_index + 1,
                           extracted_outcome_text, outcome_onto_df, ok_out)
    /\ row_index' = row_index + 1
    /\ UNCHANGED <<parseVars, runVars, filterVars, map_pc, extracted_csv,
                   intervention_ontology_path, outcome_ontology_path,
                   df_extracted, intervention_terms, outcome_terms,
                   intervention_onto_df, outcome_onto_df, mapped_written>>

\* steps 5 and 6: the two columns are added and the table is written
WriteMapped ==
    /\ map_pc = "rows"
    /\ row_index = Len(df_extracted)
    /\ df_extracted' =
          [j \in 1..Len(df_extracted) |->
              df_extracted[j] @@
                  [mapped_intervention |-> mapped_interventions[j],
                   mapped_outcome |-> mapped_outcomes[j]]]
    /\ mapped_written' = TRUE
    /\ map_pc' = "done"
    /\ UNCHANGED <<parseVars, runVars, filterVars, extracted_csv,
                   intervention_ontology_path, outcome_ontology_path,
                   intervention_terms, outcome_terms, intervention_onto_df,
                   outcome_onto_df, row_index, mapped_interventions,
                   mapped_outcomes, embed_calls, lookups>>

NextMap ==
    \/ LoadOntologies
    \/ EmbedInterventions
    \/ EmbedOutcomes
    \/ MapRow
    \/ WriteMapped

SpecMap == InitMap /\ [][NextMap]_vars

----------------------------------------------------------------------------
(* Properties of the ontology matcher, checked under SpecMap *)

\* the file, the loaded terms, the embedded frame and the mapped values of
\* one of the two ontologies
Ontologies == {"intervention", "outcome"}

FileOf(o) ==
    IF o = "intervention" THEN intervention_ontology_path ELSE outcome_ontology_path

TermsOf(o) == IF o = "intervention" THEN intervention_terms ELSE outcome_terms

FrameOf(o) == IF o = "intervention" THEN intervention_onto_df ELSE outcome_onto_df

MappedOf(o) == IF o = "intervention" THEN mapped_interventions ELSE mapped_outcomes

\* C12: when the embedding call for the query text of a lookup fails and the
\* ontology is not empty, the lookup returns "NA" and so does the mapped value
\* of that row; the rows after it are still processed.
C12_FailedQueryGivesNA ==
    /\ \A n \in 1..Len(lookups) :
          (lookups[n].called /\ ~lookups[n].ok) =>
              /\ lookups[n].result = NA
              /\ MappedOf(lookups[n].ontology)[lookups[n].row] = NA
    /\ map_pc = "done" =>
          /\ Len(mapped_interventions) = Len(extracted_csv.rows)
          /\ Len(mapped_outcomes) = Len(extracted_csv.rows)

\* the column of the table that holds field, or 0
TableColumn(field) ==
    IF field \in Range(extracted_csv.header)
    THEN CHOOSE c \in 1..Len(extracted_csv.header) : extracted_csv.header[c] = field
    ELSE 0

\* the mapped value of row j is a term of the ontology
MappedToTerm(o, j) ==
    \E k \in 1..Len(TermsOf(o)) : MappedOf(o)[j] = TermsOf(o)[k]

\* C13: for every row of an extraction table, when the value under
\* intervention_or_predictor_variable is neither "NA" nor empty and the
\* intervention ontology has a term, mapped_intervention is a term of that
\* ontology and not "NA"; likewise for outcome_variable, the outcome ontology
\* and mapped_outcome.
C13_MappingUsesExtractedValues ==
    map_pc = "done" =>
        \A j \in 1..Len(extracted_csv.rows) :
            /\ (/\ TableColumn("intervention_or_predictor_variable") # 0
                /\ extracted_csv.rows[j][TableColumn("intervention_or_predictor_variable")]
                      \notin {NA, <<>>}
                /\ intervention_terms # <<>>)
                  => /\ df_extracted[j].mapped_intervention # NA
                     /\ MappedToTerm("intervention", j)
            /\ (/\ TableColumn("outcome_variable") # 0
                /\ extracted_csv.rows[j][TableColumn("outcome_variable")]
                      \notin {NA, <<>>}
                /\ outcome_terms # <<>>)
                  => /\ df_extracted[j].mapped_outcome # NA
                     /\ MappedToTerm("outcome", j)

\* the entries of a JSON list that are records
Records(file) == {j \in 1..Len(file.items) : file.items[j].kind = "dict"}

\* an ontology file that is malformed or unsupported: another extension, a
\* JSON document that is not a list, an empty list, a list that mixes records
\* with and without the key "term" or records with other entries, a list of
\* numbers
Malformed(file) ==
    \/ file.ext \notin {".csv", ".json"}
    \/ /\ file.ext = ".json"
       /\ \/ ~file.is_list
          \/ file.items = <<>>
          \/ \E j \in Records(file), k \in Records(file) :
                file.items[j].has_term /\ ~file.items[k].has_term
          \/ Records(file) # {} /\ Records(file) # 1..Len(file.items)
          \/ \A j \in 1..Len(file.items) : file.items[j].kind = "num"

\* C14: loading never raises, and for a malformed or unsupported ontology
\* file the loaded term list is empty and every match against that ontology
\* is "NA".
C14_LoadNeverFails ==
    map_pc # "start" =>
        /\ map_pc # "raised"
        /\ \A o \in Ontologies :
              Malformed(FileOf(o)) =>
                  /\ TermsOf(o) = <<>>
                  /\ \A j \in 1..Len(MappedOf(o)) : MappedOf(o)[j] = NA

\* C15: in one run no two embedding calls are issued for the same term of
\* the same ontology, and every embedding call for an ontology term comes
\* before the first embedding call of a row's lookup.
C15_EmbedOnce ==
    \A m \in 1..Len(embed_calls) : \A n \in (m + 1)..Len(embed_calls) :
        /\ ~(/\ embed_calls[m].phase = "ontology"
             /\ embed_calls[n].phase = "ontology"
             /\ embed_calls[m].ontology = embed_calls[n].ontology
             /\ embed_calls[m].text = embed_calls[n].text)
        /\ embed_calls[m].phase = "query" => embed_calls[n].phase = "query"

\* the similarity of the query of lookup n to entry j of its ontology
SimilarityOf(n, j) ==
    cosine_similarity(lookups[n].item_embedding, FrameOf(lookups[n].ontology)[j].embedding)

\* C16: a lookup in an empty ontology returns "NA"; a lookup in any other
\* returns the term of the first entry, in ontology order, whose similarity to
\* the query embedding is the largest; two lookups with the same embedded
\* ontology and the same query embedding return the same term.
C16_NearestTerm ==
    /\ \A n \in 1..Len(lookups) :
          LET frame == FrameOf(lookups[n].ontology)
          IN  IF frame = <<>>
              THEN lookups[n].result = NA
              ELSE \E k \in 1..Len(frame) :
                      /\ lookups[n].result = frame[k].term
                      /\ \A j \in 1..Len(frame) :
                            ~SimLess(SimilarityOf(n, k), SimilarityOf(n, j))
                      /\ \A j \in 1..(k - 1) :
                            SimLess(SimilarityOf(n, j), SimilarityOf(n, k))
    /\ \A m \in 1..Len(lookups) : \A n \in 1..Len(lookups) :
          (/\ FrameOf(lookups[m].ontology) = FrameOf(lookups[n].ontology)
           /\ lookups[m].item_embedding = lookups[n].item_embedding)
              => lookups[m].result = lookups[n].result

\* C16 witness: two lookups of the query "q" in the same embedded ontology
\* [a, b]: both terms are equally similar and both lookups return "a"
C16_Witness ==
    /\ Len(lookups) = 2
    /\ intervention_onto_df = outcome_onto_df
    /\ Len(intervention_onto_df) = 2
    /\ intervention_onto_df[1].term # intervention_onto_df[2].term
    /\ lookups[1].item_embedding = Embedding(<<"q">>)
    /\ lookups[2].item_embedding = Embedding(<<"q">>)
    /\ ~SimLess(SimilarityOf(1, 1), SimilarityOf(1, 2))
    /\ ~SimLess(SimilarityOf(1, 2), SimilarityOf(1, 1))
    /\ SimLess(Zero, SimilarityOf(1, 1))
    /\ lookups[1].result = <<"a">>
    /\ lookups[2].result = <<"a">>

----------------------------------------------------------------------------
(* filter_references_with_gpt of ai_utils.py, one step per reference *)

IncludeToken == <<"i", "n", "c", "l", "u", "d", "e">>

ExcludeToken == <<"e", "x", "c", "l", "u", "d", "e">>

\* a faulty variant of Relevant: an answer that also says "exclude" is kept
RelevantIncludeOnly(text) == Contains(text, IncludeToken)

\* "include" in content and "exclude" not in content
Relevant(text) == Contains(text, IncludeToken) /\ ~Contains(text, ExcludeToken)

\* ref.get("title", "") and ref.get("abstract", ""), each empty or not
RefKinds == [title : {<<>>, <<"t">>}, abstract : {<<>>, <<"a">>}]

ReferenceLists == UNION {[1..n -> RefKinds] : n \in 0..MaxRefs}

\* "if not title and not abstract"
NoText(ref) == ref.title = <<>> /\ ref.abstract = <<>>

\* the answers of the classification call: "Include", "include\n",
\* "EXCLUDE, do not include", "x"
FilterAnswers ==
    {<<"I", "n", "c", "l", "u", "d", "e">>,
     <<"E", "X", "C", "L", "U", "D", "E", ",", " ", "d", "o", " ", "n", "o", "t",
       " ", "i", "n", "c", "l", "u", "d", "e">>,
     <<"x">>}

InitFilter ==
    /\ ParseIdle
    /\ RunIdle
    /\ MapIdle
    /\ filter_pc = "loop"
    /\ references \in ReferenceLists
    /\ ref_index = 0
    /\ filtered = <<>>
    /\ filter_calls = <<>>

\* a reference with neither title nor abstract is passed over
SkipReference ==
    /\ filter_pc = "loop"
    /\ ref_index < Len(references)
    /\ NoText(references[ref_index + 1])
    /\ ref_index' = ref_index + 1
    /\ UNCHANGED <<parseVars, runVars, mapVars, filter_pc, references, filtered,
                   filter_calls>>

\* the classification call for one reference; any exception in the try block
\* leaves the reference out
ClassifyReference ==
    /\ filter_pc = "loop"
    /\ ref_index < Len(references)
    /\ ~NoText(references[ref_index + 1])
    /\ \E resp \in Responses(FilterAnswers) :
          /\ filtered' = IF resp.ok /\ Relevant(Lower(Strip(resp.content)))
                         THEN Append(filtered, references[ref_index + 1])
                         ELSE filtered
          /\ filter_calls' = Append(filter_calls,
                [ref |-> ref_index + 1, ok |-> resp.ok, content |-> resp.content])
    /\ ref_index' = ref_index + 1
    /\ UNCHANGED <<parseVars, runVars, mapVars, filter_pc, references>>

ReturnFiltered ==
    /\ filter_pc = "loop"
    /\ ref_index = Len(references)
    /\ filter_pc' = "returned"
    /\ UNCHANGED <<parseVars, runVars, mapVars, references, ref_index, filtered,
                   filter_calls>>

NextFilter == SkipReference \/ ClassifyReference \/ ReturnFiltered

SpecFilter == InitFilter /\ [][NextFilter]_vars

----------------------------------------------------------------------------
(* Properties of the relevance filter, checked under SpecFilter *)

\* word stands in text, whatever the case of the letters of text
Mentions(text, word) ==
    \E o \in 0..(Len(text) - Len(word)) :
        \A j \in 1..Len(word) : Lower(<<text[o + j]>>) = <<word[j]>>

\* the classification calls issued for the reference at position j
CallsFor(j) == {c \in 1..Len(filter_calls) : filter_calls[c].ref = j}

\* the reference at position j was classified as relevant
Included(j) ==
    \E c \in CallsFor(j) :
        /\ filter_calls[c].ok
        /\ Mentions(filter_calls[c].content, IncludeToken)
        /\ ~Mentions(filter_calls[c].content, ExcludeToken)

\* the entries of seq at the positions in keep, in order
RECURSIVE Pick(_, _)
Pick(seq, keep) ==
    IF seq = <<>> THEN <<>>
    ELSE Pick(SubSeq(seq, 1, Len(seq) - 1), keep)
            \o (IF Len(seq) \in keep THEN <<seq[Len(seq)]>> ELSE <<>>)

\* C18: of the references handled so far, the kept ones are, in input order,
\* exactly those with a title or an abstract whose classification call
\* succeeded with an answer that holds "include" and not "exclude" in any
\* case of letters; a reference with a title or an abstract gets exactly one
\* call, a reference with neither gets none, calls are issued in input order,
\* and the filter returns only after the last reference, whatever calls failed.
C18_FailClosed ==
    /\ \A j \in 1..Len(references) :
          Cardinality(CallsFor(j)) =
              IF j <= ref_index /\ ~NoText(references[j]) THEN 1 ELSE 0
    /\ \A c \in 2..Len(filter_calls) : filter_calls[c - 1].ref < filter_calls[c].ref
    /\ filtered = Pick(references,
                       {j \in 1..ref_index : ~NoText(references[j]) /\ Included(j)})
    /\ filter_pc = "returned" => ref_index = Len(references)

\* C18 witness: three references: the first has neither title nor abstract,
\* the call for the second fails, the answer for the third is "Include"; the
\* filter returns the third alone
C18_Witness ==
    /\ filter_pc = "returned"
    /\ Len(references) = 3
    /\ NoText(references[1])
    /\ Len(filter_calls) = 2
    /\ ~filter_calls[1].ok
    /\ filter_calls[2].ok
    /\ filter_calls[2].content = <<"I", "n", "c", "l", "u", "d", "e">>
    /\ filtered = <<references[3]>>

====
